---- MODULE Spec2Model ----
(***************************************************************************)
(* A model of coloromo: the CIE helper (sRGB -> CIEXYZ -> CIELAB and the   *)
(* CIEDE2000 colour difference), the Palette, and the Coloromo reducer     *)
(* with its cache.                                                         *)
(*                                                                         *)
(* Python floats are modelled as binary floating-point numbers with a      *)
(* significand of Prec bits (instead of 53), an unbounded exponent, and    *)
(* round-to-nearest-even after every operation.  A float is the record     *)
(* [m |-> significand (signed), e |-> exponent], value m * 2^e, with       *)
(* 2^(Prec-1) <= |m| < 2^Prec, or m = 0 and e = 0.  A raised Python        *)
(* exception is a string in the place of the value.                        *)
(***************************************************************************)
EXTENDS Integers, Sequences, FiniteSets, TLC

(* Width of the significand of the modelled floats. *)
Prec == 24

(***************************************************************************)
(* Floating-point arithmetic                                               *)
(***************************************************************************)

RECURSIVE BitLen(_)
BitLen(n) == IF n = 0 THEN 0 ELSE 1 + BitLen(n \div 2)

Abs(n) == IF n < 0 THEN -n ELSE n

Sgn(n) == IF n < 0 THEN -1 ELSE IF n > 0 THEN 1 ELSE 0

(* q, or the even neighbour below it when q was rounded up from a tie. *)
TieToEven(q, tie) == IF tie /\ q % 2 = 1 THEN q - 1 ELSE q

(* n / 2^s rounded to nearest, ties to even (n >= 0, s >= 1). *)
RoundShift(n, s) == TieToEven((n + 2^(s - 1)) \div (2^s), n % (2^s) = 2^(s - 1))

(* q with its lowest bit set when something nonzero was dropped below it. *)
Sticky(q, dropped) == IF dropped = 0 \/ q % 2 = 1 THEN q ELSE q + 1

(* The floats. *)
Float == [m : Int, e : Int]

FZero == [m |-> 0, e |-> 0]

(* sign * q * 2^e for a rounded significand q <= 2^Prec. *)
Carry(sign, q, e) ==
  IF q = 2^Prec
  THEN [m |-> sign * 2^(Prec - 1), e |-> e + 1]
  ELSE [m |-> sign * q, e |-> e]

(* The float nearest to sign * n * 2^e, n > 0 of len bits. *)
NormLen(sign, n, e, len) ==
  IF len <= Prec
  THEN [m |-> sign * n * 2^(Prec - len), e |-> e - (Prec - len)]
  ELSE Carry(sign, RoundShift(n, len - Prec), e + (len - Prec))

(* The float nearest to sign * n * 2^e (n >= 0). *)
Norm[sign \in Int, n \in Int, e \in Int] ==
  IF n = 0 THEN FZero ELSE NormLen(sign, n, e, BitLen(n))

(* The float nearest to s * 2^e. *)
NormInt[s \in Int, e \in Int] == Norm[Sgn(s), Abs(s), e]

FromInt(n) == NormInt[n, 0]

FNeg[x \in Float] == [m |-> -x.m, e |-> x.e]

FAbs[x \in Float] == [m |-> Abs(x.m), e |-> x.e]

(* n / 2^s keeping a sticky lowest bit for what is shifted out (n >= 0). *)
StickyShift(n, s) ==
  IF s = 0 THEN n
  ELSE IF s > Prec + 3 THEN 1
  ELSE Sticky(n \div (2^s), n % (2^s))

(* big + small for big.e >= small.e: small is aligned with three guard bits. *)
AddAligned[big \in Float, small \in Float] ==
  NormInt[(big.m * 8) + Sgn(small.m) * StickyShift(Abs(small.m) * 8, big.e - small.e),
          big.e - 3]

(* x + y *)
FAdd[x \in Float, y \in Float] ==
  IF x.m = 0 THEN y
  ELSE IF y.m = 0 THEN x
  ELSE AddAligned[IF x.e >= y.e THEN x ELSE y, IF x.e >= y.e THEN y ELSE x]

FSub[x \in Float, y \in Float] == FAdd[x, FNeg[y]]

(* The significands are multiplied by halves of HalfBits bits. *)
HalfBits == Prec \div 2

Half == 2^HalfBits

(* top * Half^2 + rest (rest < Half^2) with the sign and exponent given,   *)
(* rounded: three bits of rest and a sticky bit are kept below top.        *)
MulRound[sign \in Int, top \in Int, rest \in Int, e \in Int] ==
  Norm[sign,
       Sticky((top * 8) + (rest \div ((Half * Half) \div 8)), rest % ((Half * Half) \div 8)),
       e + (2 * HalfBits) - 3]

(* hh * Half^2 + mid * Half + ll, the product of two significands. *)
MulSum[sign \in Int, hh \in Int, mid \in Int, ll \in Int, e \in Int] ==
  MulRound[sign, hh + (mid \div Half), ((mid % Half) * Half) + ll, e]

(* (xh * Half + xl) * (yh * Half + yl) *)
MulParts[sign \in Int, xh \in Int, xl \in Int, yh \in Int, yl \in Int, e \in Int] ==
  MulSum[sign, xh * yh, (xh * yl) + (xl * yh) + ((xl * yl) \div Half), (xl * yl) % Half, e]

(* x * y, rounded to Prec bits. *)
FMul[x \in Float, y \in Float] ==
  IF x.m = 0 \/ y.m = 0 THEN FZero
  ELSE MulParts[Sgn(x.m) * Sgn(y.m), Abs(x.m) \div Half, Abs(x.m) % Half,
                Abs(y.m) \div Half, Abs(y.m) % Half, x.e + y.e]

RECURSIVE LongDiv(_, _, _)
(* <<floor(r * 2^k / d), (r * 2^k) mod d>> for 0 <= r < d, five bits a step. *)
LongDiv(r, d, k) ==
  IF k = 0 THEN <<0, r>>
  ELSE LET s == IF k < 5 THEN k ELSE 5
           rr == r * (2^s)
           rest == LongDiv(rr % d, d, k - s)
       IN <<((rr \div d) * (2^(k - s))) + rest[1], rest[2]>>

(* sign * (q0 + qr[1] / 2^(Prec+1)) * 2^e, qr[2] the remainder left over. *)
DivRound(sign, q0, qr, e) ==
  Norm[sign, Sticky(((q0 * (2^(Prec + 1))) + qr[1]) * 2, qr[2]), e - (Prec + 2)]

(* x / y for y # 0, rounded to Prec bits. *)
FDiv[x \in Float, y \in Float] ==
  IF x.m = 0 THEN FZero
  ELSE DivRound(Sgn(x.m) * Sgn(y.m), Abs(x.m) \div Abs(y.m),
                LongDiv(Abs(x.m) % Abs(y.m), Abs(y.m), Prec + 1), x.e - y.e)

FLt[x \in Float, y \in Float] == FSub[x, y].m < 0

FLe[x \in Float, y \in Float] == FSub[x, y].m <= 0

(* The integer nearest to x (|x| < 2^30). *)
FRoundInt(x) ==
  IF x.m = 0 THEN 0
  ELSE IF x.e >= 0 THEN x.m * 2^x.e
  ELSE IF -x.e > Prec + 1 THEN 0
  ELSE Sgn(x.m) * RoundShift(Abs(x.m), -x.e)

(* x * 2^k, exact. *)
FScale(x, k) == IF x.m = 0 THEN FZero ELSE [m |-> x.m, e |-> x.e + k]

RECURSIVE SqrtBits(_, _, _, _, _)
(* Digit-by-digit square root: consumes the pairs of bits of radicand rad  *)
(* (np pairs) and then nz pairs of zeros; returns <<root, remainder>>.     *)
SqrtBits(rem, root, rad, np, nz) ==
  IF np = 0 /\ nz = 0 THEN <<root, rem>>
  ELSE LET pair == IF np > 0 THEN (rad \div (4^(np - 1))) % 4 ELSE 0
           r == (rem * 4) + pair
           trial == (root * 4) + 1
           np2 == IF np > 0 THEN np - 1 ELSE 0
           nz2 == IF np > 0 THEN nz ELSE nz - 1
       IN IF r >= trial
          THEN SqrtBits(r - trial, (root * 2) + 1, rad, np2, nz2)
          ELSE SqrtBits(r, root * 2, rad, np2, nz2)

(* The float nearest to (rr[1] + f) * 2^e, 0 <= f < 1, f = 0 iff rr[2] = 0. *)
SqrtRound(rr, e) == NormInt[Sticky(rr[1] * 2, rr[2]), e - 1]

(* The square root of rad * 2^ev for an even ev, with nz bits below the    *)
(* radicand's root, rounded.                                               *)
SqrtEven[rad \in Int, ev \in Int, nz \in Int] ==
  SqrtRound(SqrtBits(0, 0, rad, (Prec + 3) \div 2, nz), (ev \div 2) - nz)

(* x ** 0.5 for x >= 0, correctly rounded. *)
FSqrt[x \in Float] ==
  IF x.m = 0 THEN FZero
  ELSE SqrtEven[IF x.e % 2 = 0 THEN x.m ELSE x.m * 2,
                IF x.e % 2 = 0 THEN x.e ELSE x.e - 1,
                (Prec + 2) - ((Prec + 3) \div 2)]

RECURSIVE FPowInt(_, _)
(* x ** n for an integer n >= 1, by repeated multiplication. *)
FPowInt(x, n) == IF n = 1 THEN x ELSE FMul[FPowInt(x, n - 1), x]

FOne == [m |-> 2^(Prec - 1), e |-> 1 - Prec]

(* The float written n / 10^k in the source. *)
Dec(n, k) == FDiv[FromInt(n), FromInt(10^k)]

FPi == Dec(314159265, 8)

FHalfPi == FScale(FPi, -1)

FLn2 == Dec(693147181, 9)

RECURSIVE SinTail(_, _)
(* 1 - r2/(2k(2k+1)) * (1 - r2/((2k+2)(2k+3)) * ...), the Taylor tail of sin(r)/r. *)
SinTail(r2, k) ==
  IF k > 7 THEN FOne
  ELSE FSub[FOne, FMul[FDiv[r2, FromInt((2 * k) * ((2 * k) + 1))], SinTail(r2, k + 1)]]

RECURSIVE CosTail(_, _)
(* 1 - r2/((2k-1)2k) * (1 - ...), the Taylor tail of cos(r). *)
CosTail(r2, k) ==
  IF k > 7 THEN FOne
  ELSE FSub[FOne, FMul[FDiv[r2, FromInt(((2 * k) - 1) * (2 * k))], CosTail(r2, k + 1)]]

(* sin(r) for even q and cos(r) for odd q, |r| <= pi/4. *)
SinOrCos[r \in Float, q \in Int] ==
  IF q % 2 = 0 THEN FMul[r, SinTail(FMul[r, r], 1)] ELSE CosTail(FMul[r, r], 1)

(* sin(r + q * pi/2), |r| <= pi/4. *)
SinShifted[r \in Float, q \in Int] ==
  IF q % 4 >= 2 THEN FNeg[SinOrCos[r, q]] ELSE SinOrCos[r, q]

(* sin(x + quadrant * pi/2), x within pi/4 of k * pi/2. *)
SinCosReduced[x \in Float, k \in Int, quadrant \in Int] ==
  SinShifted[FSub[x, FMul[FromInt(k), FHalfPi]], k + quadrant]

FSin[x \in Float] == SinCosReduced[x, FRoundInt(FDiv[x, FHalfPi]), 0]

FCos[x \in Float] == SinCosReduced[x, FRoundInt(FDiv[x, FHalfPi]), 1]

RECURSIVE ExpTail(_, _)
(* 1 + r/k * (1 + r/(k+1) * ...), the Taylor tail of exp(r). *)
ExpTail(r, k) ==
  IF k > 11 THEN FOne
  ELSE FAdd[FOne, FMul[FDiv[r, FromInt(k)], ExpTail(r, k + 1)]]

(* exp(x) for x within ln(2)/2 of k ln 2. *)
ExpReduced[x \in Float, k \in Int] ==
  FScale(ExpTail(FSub[x, FMul[FromInt(k), FLn2]], 1), k)

FExp[x \in Float] == ExpReduced[x, FRoundInt(FDiv[x, FLn2])]

RECURSIVE LnTail(_, _)
(* 1/(2k+1) + z2 * (1/(2k+3) + z2 * ...), the series of atanh(z)/z. *)
LnTail(z2, k) ==
  IF k > 9 THEN FZero
  ELSE FAdd[FDiv[FOne, FromInt((2 * k) + 1)], FMul[z2, LnTail(z2, k + 1)]]

(* 2 atanh(z) *)
Atanh2[z \in Float] == FScale(FMul[z, LnTail(FMul[z, z], 0)], 1)

(* ln(f * 2^bigE) for 1 <= f < 2: ln f = 2 atanh((f - 1) / (f + 1)). *)
LnParts[f \in Float, bigE \in Int] ==
  FAdd[FMul[FromInt(bigE), FLn2], Atanh2[FDiv[FSub[f, FOne], FAdd[f, FOne]]]]

(* ln(x) for x > 0 *)
FLn[x \in Float] == LnParts[[m |-> x.m, e |-> 1 - Prec], x.e + (Prec - 1)]

(* x ** y for x >= 0 and a float exponent y > 0. *)
FPow[x \in Float, y \in Float] == IF x.m = 0 THEN FZero ELSE FExp[FMul[y, FLn[x]]]

RECURSIVE AtanTail(_, _)
(* 1/(2k+1) - u2 * (1/(2k+3) - u2 * ...), the series of atan(u)/u. *)
AtanTail(u2, k) ==
  IF k > 8 THEN FZero
  ELSE FSub[FDiv[FOne, FromInt((2 * k) + 1)], FMul[u2, AtanTail(u2, k + 1)]]

(* t / (1 + sqrt(1 + t^2)) = tan(atan(t) / 2). *)
HalfAngle[t \in Float] == FDiv[t, FAdd[FOne, FSqrt[FAdd[FOne, FMul[t, t]]]]]

(* 4 atan(u) for a small u. *)
Atan4[u \in Float] == FScale(FMul[u, AtanTail(FMul[u, u], 0)], 2)

(* atan(t) for 0 <= t <= 1. *)
FAtan[t \in Float] == Atan4[HalfAngle[HalfAngle[t]]]

(* The angle of a point from the angle a of its mirror image in the first  *)
(* octant: steep mirrors at the diagonal, left at the y axis, below at the *)
(* x axis.                                                                 *)
Unfold[a \in Float, steep \in BOOLEAN, left \in BOOLEAN, below \in BOOLEAN] ==
  IF steep THEN Unfold[FSub[FHalfPi, a], FALSE, left, below]
  ELSE IF left THEN Unfold[FSub[FPi, a], FALSE, FALSE, below]
  ELSE IF below THEN FNeg[a]
  ELSE a

(* atan2 for ay = |y| > 0 and ax = |x| > 0. *)
Atan2Abs[ay \in Float, ax \in Float, left \in BOOLEAN, below \in BOOLEAN] ==
  Unfold[FAtan[IF FLt[ax, ay] THEN FDiv[ax, ay] ELSE FDiv[ay, ax]], FLt[ax, ay], left, below]

(* math.atan2(y, x), a float in [-pi, pi]. *)
FAtan2[y \in Float, x \in Float] ==
  IF y.m = 0 THEN (IF x.m < 0 THEN FPi ELSE FZero)
  ELSE IF x.m = 0 THEN (IF y.m > 0 THEN FHalfPi ELSE FNeg[FHalfPi])
  ELSE Atan2Abs[FAbs[y], FAbs[x], x.m < 0, y.m < 0]

(* math.degrees(x) = x * (180 / pi) and math.radians(x) = x * (pi / 180). *)
FDegrees[x \in Float] == FMul[x, FDiv[FromInt(180), FPi]]

FRadians[x \in Float] == FMul[x, FDiv[FPi, FromInt(180)]]

(***************************************************************************)
(* class CIE                                                               *)
(***************************************************************************)

SRGB_TO_CIEXYZ_MATRIX ==
  << <<Dec(41239080, 8), Dec(35758434, 8), Dec(18048079, 8)>>,
     <<Dec(21263901, 8), Dec(71516868, 8), Dec(7219232, 8)>>,
     <<Dec(1933082, 8), Dec(11919478, 8), Dec(95053215, 8)>> >>

X_n == Dec(950489, 6)

Y_n == FromInt(1)

Z_n == Dec(108884, 5)

SIGMA == FDiv[FromInt(6), FromInt(29)]

SIGMA_SQUARED == FPowInt(SIGMA, 2)

SIGMA_CUBED == FPowInt(SIGMA, 3)

ONE_THIRD == FDiv[FromInt(1), FromInt(3)]

FOUR_TWENTYNINTHS == FDiv[FromInt(4), FromInt(29)]

TWENTY_FIVE_POWER_SEVEN == FPowInt(FromInt(25), 7)

TAU == FMul[FromInt(2), FPi]

K_L == FromInt(1)

K_C == FromInt(1)

K_H == FromInt(1)

(* inverse_gamma(u), nested in _srgb_to_ciexyz. *)
inverse_gamma(u) ==
  IF FLe[u, Dec(4045, 5)]
  THEN FDiv[u, Dec(1292, 2)]
  ELSE FPow[FDiv[FAdd[u, Dec(55, 3)], Dec(1055, 3)], Dec(24, 1)]

(* sum(v * w for w in row): the int 0, then the products added left to right. *)
RowSum(v, row) ==
  FAdd[FAdd[FAdd[FZero, FMul[v, row[1]]], FMul[v, row[2]]], FMul[v, row[3]]]

(* The generator over zip((r, g, b), matrix): channel i goes with row i. *)
ZipRowSums(rgb, matrix) == [i \in 1..3 |-> RowSum(rgb[i], matrix[i])]

(* (inverse_gamma(v / 255) for v in (r, g, b)) *)
gamma_expanded(r, g, b) ==
  [i \in 1..3 |-> inverse_gamma(FDiv[FromInt(<<r, g, b>>[i]), FromInt(255)])]

(* CIE._srgb_to_ciexyz(r, g, b) *)
srgb_to_ciexyz(r, g, b) == ZipRowSums(gamma_expanded(r, g, b), SRGB_TO_CIEXYZ_MATRIX)

(* f(t), nested in _ciexyz_to_cielab. *)
cielab_f(t) ==
  IF FLt[SIGMA_CUBED, t]
  THEN FPow[t, ONE_THIRD]
  ELSE FAdd[FDiv[FMul[t, ONE_THIRD], SIGMA_SQUARED], FOUR_TWENTYNINTHS]

(* L, a, b of _ciexyz_to_cielab from f_x, f_y, f_z. *)
cielab_of(f_x, f_y, f_z) ==
  << FSub[FMul[FromInt(116), f_y], FromInt(16)],
     FMul[FromInt(500), FSub[f_x, f_y]],
     FMul[FromInt(200), FSub[f_y, f_z]] >>

(* CIE._ciexyz_to_cielab(x, y, z) *)
ciexyz_to_cielab(x, y, z) ==
  cielab_of(cielab_f(FDiv[x, X_n]), cielab_f(FDiv[y, Y_n]), cielab_f(FDiv[z, Z_n]))

(* cls._ciexyz_to_cielab called on an unpacked (x, y, z). *)
ciexyz_to_cielab_unpacked(xyz) == ciexyz_to_cielab(xyz[1], xyz[2], xyz[3])

(* CIE.srgb_to_cielab(r, g, b) *)
srgb_to_cielab(r, g, b) == ciexyz_to_cielab_unpacked(srgb_to_ciexyz(r, g, b))

(* The outcome of a call that returns a float or raises: err is "none" or  *)
(* the exception's name, val the float returned (zero when it raised).     *)
Ok(v) == [err |-> "none", val |-> v]

Raise(name) == [err |-> name, val |-> FZero]

(* CIE.radians_to_degrees(angle) *)
radians_to_degrees(angle) ==
  IF FLt[FPi, angle] \/ FLt[angle, FNeg[FPi]]
  THEN Raise("ValueError")
  ELSE Ok(FDegrees[IF angle.m >= 0 THEN angle ELSE FAdd[angle, TAU]])

(* (a ** 2 + b ** 2) ** 0.5, the chroma of _ciede2000. *)
chroma(a, b) == FSqrt[FAdd[FPowInt(a, 2), FPowInt(b, 2)]]

(* 1 / (1 + 25**7 / C7) for C7 = C ** 7: the float division raises when    *)
(* C7 is 0.0.                                                              *)
ChromaQuotientOf(C7) ==
  IF C7.m = 0 THEN Raise("ZeroDivisionError")
  ELSE Ok(FDiv[FOne, FAdd[FOne, FDiv[TWENTY_FIVE_POWER_SEVEN, C7]]])

(* The quotient under the roots of G_plus and R_C. *)
ChromaQuotient(C) == ChromaQuotientOf(FPowInt(C, 7))

(* G_plus of _ciede2000, from the quotient under its root. *)
G_plus(quotient) == FAdd[FOne, FMul[Dec(5, 1), FSub[FOne, FSqrt[quotient]]]]

(* h_prime_i of _ciede2000. *)
h_prime(b, a_prime) ==
  IF b.m = 0 /\ a_prime.m = 0
  THEN Ok(FZero)
  ELSE radians_to_degrees(FAtan2[b, a_prime])

(* Delta_h_prime without the wraparound by 360 degrees. *)
Delta_h_prime_unwrapped(C_prime_1, C_prime_2, h_prime_diff) ==
  IF C_prime_1.m = 0 \/ C_prime_2.m = 0 THEN FZero ELSE h_prime_diff

(* Delta_h_prime of _ciede2000. *)
Delta_h_prime(C_prime_1, C_prime_2, h_prime_diff) ==
  IF C_prime_1.m = 0 \/ C_prime_2.m = 0 THEN FZero
  ELSE IF FLe[FAbs[h_prime_diff], FromInt(180)] THEN h_prime_diff
  ELSE IF FLt[FromInt(180), h_prime_diff] THEN FSub[h_prime_diff, FromInt(360)]
  ELSE FAdd[h_prime_diff, FromInt(360)]

(* h_prime_bar of _ciede2000. *)
h_prime_bar(C_prime_1, C_prime_2, h_prime_diff, h_prime_sum) ==
  IF C_prime_1.m = 0 \/ C_prime_2.m = 0 THEN h_prime_sum
  ELSE IF FLe[FAbs[h_prime_diff], FromInt(180)] THEN FDiv[h_prime_sum, FromInt(2)]
  ELSE IF FLt[h_prime_sum, FromInt(360)]
       THEN FDiv[FAdd[h_prime_sum, FromInt(360)], FromInt(2)]
  ELSE FDiv[FSub[h_prime_sum, FromInt(360)], FromInt(2)]

(* Delta_H_prime of _ciede2000. *)
Delta_H_prime(C_prime_1, C_prime_2, dh) ==
  FMul[FMul[FromInt(2), FSqrt[FMul[C_prime_1, C_prime_2]]],
       FSin[FRadians[FDiv[dh, FromInt(2)]]]]

(* T of _ciede2000. *)
T(hbar) ==
  FSub[FAdd[FAdd[FSub[FOne,
    FMul[Dec(17, 2), FCos[FRadians[FSub[hbar, FromInt(30)]]]]],
    FMul[Dec(24, 2), FCos[FRadians[FMul[FromInt(2), hbar]]]]],
    FMul[Dec(32, 2), FCos[FRadians[FAdd[FMul[FromInt(3), hbar], FromInt(6)]]]]],
    FMul[Dec(2, 1), FCos[FRadians[FSub[FMul[FromInt(4), hbar], FromInt(63)]]]]]

(* Delta_theta of _ciede2000. *)
Delta_theta(hbar) ==
  FMul[FromInt(30), FExp[FNeg[FPowInt(FDiv[FSub[hbar, FromInt(275)], FromInt(25)], 2)]]]

(* S_L of _ciede2000, from (L_prime_bar - 50) ** 2. *)
S_L(Lm50sq) ==
  FAdd[FOne, FDiv[FMul[Dec(15, 3), Lm50sq], FSqrt[FAdd[FromInt(20), Lm50sq]]]]

S_C(C_prime_bar) == FAdd[FOne, FMul[Dec(45, 3), C_prime_bar]]

S_H(C_prime_bar, t) == FAdd[FOne, FMul[FMul[Dec(15, 3), C_prime_bar], t]]

R_T(dtheta, r_c) == FMul[FNeg[FSin[FRadians[FMul[FromInt(2), dtheta]]]], r_c]

(* The sum under the root of Delta_E, from its three quotients. *)
Radicand(tL, tC, tH, r_t) ==
  FAdd[FAdd[FAdd[FPowInt(tL, 2), FPowInt(tC, 2)], FPowInt(tH, 2)],
       FMul[FMul[r_t, tC], tH]]

(* The local variables of a call of _ciede2000, before its first           *)
(* statement: err is the exception the call ends with ("none" while it     *)
(* runs), at the statement that raised it.                                 *)
Locals(L_1, a_1, b_1, L_2, a_2, b_2) ==
  [err |-> "none", at |-> "return",
   L_1 |-> L_1, a_1 |-> a_1, b_1 |-> b_1, L_2 |-> L_2, a_2 |-> a_2, b_2 |-> b_2,
   G_plus |-> FZero, a_prime_1 |-> FZero, a_prime_2 |-> FZero,
   C_prime_1 |-> FZero, C_prime_2 |-> FZero,
   h_prime_1 |-> FZero, h_prime_2 |-> FZero,
   Delta_L_prime |-> FZero, Delta_C_prime |-> FZero,
   h_prime_diff |-> FZero, h_prime_sum |-> FZero,
   Delta_h_prime |-> FZero, Delta_H_prime |-> FZero,
   L_prime_bar |-> FZero, C_prime_bar |-> FZero, h_prime_bar |-> FZero,
   T |-> FZero, Delta_theta |-> FZero, R_C |-> FZero,
   S_L |-> FZero, S_C |-> FZero, S_H |-> FZero, R_T |-> FZero,
   radicand |-> FZero, Delta_E |-> FZero]

Failed(v, err, at) == [v EXCEPT !.err = err, !.at = at]

(* C_star_1_ab .. G_plus *)
SetG(v, q) ==
  IF q.err # "none" THEN Failed(v, q.err, "G_plus")
  ELSE [v EXCEPT !.G_plus = G_plus(q.val)]

StepG(v) ==
  SetG(v, ChromaQuotient(FDiv[FAdd[chroma(v.a_1, v.b_1), chroma(v.a_2, v.b_2)], FromInt(2)]))

(* a_prime_1, a_prime_2 *)
StepAPrime(v) ==
  IF v.err # "none" THEN v
  ELSE [v EXCEPT !.a_prime_1 = FMul[v.G_plus, v.a_1],
                 !.a_prime_2 = FMul[v.G_plus, v.a_2]]

(* C_prime_1, C_prime_2, h_prime_1, h_prime_2 *)
SetHues(v, h1, h2) ==
  IF h1.err # "none" THEN Failed(v, h1.err, "h_prime_1")
  ELSE IF h2.err # "none" THEN Failed([v EXCEPT !.h_prime_1 = h1.val], h2.err, "h_prime_2")
  ELSE [v EXCEPT !.h_prime_1 = h1.val, !.h_prime_2 = h2.val]

StepHues(v) ==
  IF v.err # "none" THEN v
  ELSE SetHues([v EXCEPT !.C_prime_1 = chroma(v.a_prime_1, v.b_1),
                         !.C_prime_2 = chroma(v.a_prime_2, v.b_2)],
               h_prime(v.b_1, v.a_prime_1), h_prime(v.b_2, v.a_prime_2))

(* Delta_L_prime, Delta_C_prime, h_prime_diff, h_prime_sum, the means *)
StepDifferences(v) ==
  IF v.err # "none" THEN v
  ELSE [v EXCEPT !.Delta_L_prime = FSub[v.L_2, v.L_1],
                 !.Delta_C_prime = FSub[v.C_prime_2, v.C_prime_1],
                 !.h_prime_diff = FSub[v.h_prime_2, v.h_prime_1],
                 !.h_prime_sum = FAdd[v.h_prime_1, v.h_prime_2],
                 !.L_prime_bar = FDiv[FAdd[v.L_1, v.L_2], FromInt(2)],
                 !.C_prime_bar = FDiv[FAdd[v.C_prime_1, v.C_prime_2], FromInt(2)]]

(* Delta_h_prime, h_prime_bar *)
StepHueDifference(v) ==
  IF v.err # "none" THEN v
  ELSE [v EXCEPT !.Delta_h_prime = Delta_h_prime(v.C_prime_1, v.C_prime_2, v.h_prime_diff),
                 !.h_prime_bar = h_prime_bar(v.C_prime_1, v.C_prime_2,
                                             v.h_prime_diff, v.h_prime_sum)]

(* Delta_H_prime, T, Delta_theta, R_C, S_L, S_C *)
SetTerms(v, q) ==
  IF q.err # "none" THEN Failed(v, q.err, "R_C")
  ELSE [v EXCEPT !.Delta_H_prime = Delta_H_prime(v.C_prime_1, v.C_prime_2, v.Delta_h_prime),
                 !.T = T(v.h_prime_bar),
                 !.Delta_theta = Delta_theta(v.h_prime_bar),
                 !.R_C = FMul[FromInt(2), FSqrt[q.val]],
                 !.S_L = S_L(FPowInt(FSub[v.L_prime_bar, FromInt(50)], 2)),
                 !.S_C = S_C(v.C_prime_bar)]

StepTerms(v) == IF v.err # "none" THEN v ELSE SetTerms(v, ChromaQuotient(v.C_prime_bar))

(* S_H, R_T *)
StepRotation(v) ==
  IF v.err # "none" THEN v
  ELSE [v EXCEPT !.S_H = S_H(v.C_prime_bar, v.T),
                 !.R_T = R_T(v.Delta_theta, v.R_C)]

(* The sum under the root of Delta_E: every quotient divides by K * S. *)
StepRadicand(v) ==
  IF v.err # "none" THEN v
  ELSE IF FMul[K_L, v.S_L].m = 0 \/ FMul[K_C, v.S_C].m = 0 \/ FMul[K_H, v.S_H].m = 0
  THEN Failed(v, "ZeroDivisionError", "Delta_E")
  ELSE [v EXCEPT !.radicand = Radicand(FDiv[v.Delta_L_prime, FMul[K_L, v.S_L]],
                                       FDiv[v.Delta_C_prime, FMul[K_C, v.S_C]],
                                       FDiv[v.Delta_H_prime, FMul[K_H, v.S_H]],
                                       v.R_T)]

(* Delta_E: the root of a negative sum is a complex number, not a float. *)
StepDeltaE(v) ==
  IF v.err # "none" THEN v
  ELSE IF v.radicand.m < 0 THEN Failed(v, "complex", "Delta_E")
  ELSE [v EXCEPT !.Delta_E = FSqrt[v.radicand]]

(* CIE._ciede2000(L_1, a_1, b_1, L_2, a_2, b_2): the locals it ends with. *)
ciede2000(L_1, a_1, b_1, L_2, a_2, b_2) ==
  StepDeltaE(StepRadicand(StepRotation(StepTerms(StepHueDifference(
    StepDifferences(StepHues(StepAPrime(StepG(
      Locals(L_1, a_1, b_1, L_2, a_2, b_2))))))))))

(***************************************************************************)
(* Bounds of the inputs                                                    *)
(***************************************************************************)

(* Longest iterable handed to Palette.add. *)
MaxAdd == 2

(* Most pixels in an image handed to reduce_image. *)
MaxPixels == 2

(* radians_to_degrees is called on the angles k/8, |k| <= MaxAngle. *)
MaxAngle == 32

(* The RGB colours of pixels and palettes: black, a dark grey, white. *)
RGBColors == {<<0, 0, 0>>, <<10, 10, 10>>, <<255, 255, 255>>}

(* Sequences over S of the lengths lo..hi. *)
SeqsOf(S, lo, hi) == UNION {[1..n -> S] : n \in lo..hi}

(* The CIELAB colours _ciede2000 is called on: greys (a = b = 0) and       *)
(* colours of every hue quadrant, at two lightnesses.                      *)
LabInputs ==
  {50, 60} \X {<<0, 0>>, <<3, 4>>, <<-4, 3>>, <<-3, -4>>, <<4, -3>>, <<5, 0>>}

LabFloat(c) == <<FromInt(c[1]), FromInt(c[2][1]), FromInt(c[2][2])>>

(* The angles radians_to_degrees is called on: k/8 radians, pi and -pi,    *)
(* the floats next to them outside, and the smallest angles next to zero.  *)
AngleInputs ==
  {NormInt[k, -3] : k \in -MaxAngle..MaxAngle}
    \cup {FPi, FNeg[FPi],
          [m |-> FPi.m + 1, e |-> FPi.e], [m |-> -(FPi.m + 1), e |-> FPi.e],
          NormInt[1, -(2 * Prec)], NormInt[-1, -(2 * Prec)]}

(***************************************************************************)
(* State                                                                   *)
(***************************************************************************)

VARIABLES
  colors,   \* Palette.colors: a member is <<v>> (the int v) or <<r, g, b>>
  cache,    \* Coloromo.cache: pixel |-> the palette colour found for it
  passed,   \* history: the RGB triples that were elements of add's argument
  last      \* the last call: [op, arg, err, ret]

vars == <<colors, cache, passed, last>>

NoValue == <<>>

Call(op, arg, err, ret) == [op |-> op, arg |-> arg, err |-> err, ret |-> ret]

(* Palette.__init__ and Coloromo.__init__ *)
Init ==
  /\ colors = {}
  /\ cache = <<>>
  /\ passed = {}
  /\ last = Call("init", NoValue, "none", NoValue)

(***************************************************************************)
(* class Palette                                                           *)
(***************************************************************************)

(* What iterating an RGB triple yields: its three channel values. *)
IterColor(c) == {<<c[i]>> : i \in 1..3}

(* What iterating a sequence of RGB triples yields: the triples. *)
IterGroup(g) == {g[i] : i \in DOMAIN g}

(* self.colors.update, colors unpacked: every argument of update is        *)
(* iterated and its elements are inserted.  iterated[i] is what the i-th   *)
(* element of colors yields when iterated.                                 *)
add(self_colors, iterated) ==
  self_colors \cup UNION {iterated[i] : i \in DOMAIN iterated}

(* palette.add(colors) with colors a sequence of RGB triples. *)
AddColors(arg) ==
  /\ colors' = add(colors, [i \in DOMAIN arg |-> IterColor(arg[i])])
  /\ passed' = passed \cup {arg[i] : i \in DOMAIN arg}
  /\ last' = Call("add", NoValue, "none", NoValue)
  /\ UNCHANGED cache

(* palette.add(colors) with colors a sequence of sequences of RGB triples. *)
AddGroups(arg) ==
  /\ colors' = add(colors, [i \in DOMAIN arg |-> IterGroup(arg[i])])
  /\ last' = Call("add", NoValue, "none", NoValue)
  /\ UNCHANGED <<cache, passed>>

(***************************************************************************)
(* Palette.find_nearest (the matcher) and Coloromo.reduce_image            *)
(***************************************************************************)

(* to_lab over the RGB colours, computed once. *)
LabTable == [c \in RGBColors |-> srgb_to_cielab(c[1], c[2], c[3])] @@ <<>>

(* to_lab(rgb) *)
to_lab(rgb) == LabTable[rgb]

(* _ciede2000 called on two unpacked CIELAB colours. *)
ciede2000_unpacked(c1, c2) == ciede2000(c1[1], c1[2], c1[3], c2[1], c2[2], c2[3])

(* delta_e over the pairs of RGB colours, computed once. *)
DistanceTable ==
  [p \in RGBColors \X RGBColors |-> ciede2000_unpacked(to_lab(p[1]), to_lab(p[2]))] @@ <<>>

(* delta_e(to_lab(rgb), to_lab(member)) *)
delta_e(rgb, member) == DistanceTable[<<rgb, member>>]

IsColor(member) == Len(member) = 3

(* The exceptions a search over the members can end with: converting a     *)
(* member that is no RGB triple, or a distance computation that raises;    *)
(* d[m] is the outcome of delta_e for the member m.                        *)
SearchErrors(members, d) ==
  {"TypeError" : m \in members \ DOMAIN d}
    \cup {d[m].err : m \in {n \in DOMAIN d : d[n].err # "none"}}

(* The members at the least distance (all members are colours and every    *)
(* distance is a float).                                                   *)
Minimisers(members, d) ==
  {m \in members : \A n \in members : FLe[d[m].Delta_E, d[n].Delta_E]}

(* The outcomes [err, ret] of a search with the distances d. *)
SearchWith(members, d) ==
  IF SearchErrors(members, d) # {}
  THEN {[err |-> e, ret |-> NoValue] : e \in SearchErrors(members, d)}
  ELSE {[err |-> "none", ret |-> m] : m \in Minimisers(members, d)}

(* A fresh nearest-neighbour search of rgb: the outcomes [err, ret] it can *)
(* have.                                                                   *)
Search(members, rgb) ==
  IF members = {} THEN {[err |-> "EmptyPalette", ret |-> NoValue]}
  ELSE SearchWith(members, [m \in {n \in members : IsColor(n)} |-> delta_e(rgb, m)])

(* find_nearest(rgb) with the cache: the outcomes [cache, err, ret]. *)
find_nearest(members, memo, rgb) ==
  IF rgb \in DOMAIN memo
  THEN {[cache |-> memo, err |-> "none", ret |-> memo[rgb]]}
  ELSE {[cache |-> IF o.err = "none" THEN memo @@ (rgb :> o.ret) ELSE memo,
         err |-> o.err, ret |-> o.ret] : o \in Search(members, rgb)}

(* The outcomes of a comprehension whose first element had the outcome o   *)
(* and whose remaining elements have the outcomes rest[c] when started     *)
(* with the cache c: the first exception ends the comprehension.           *)
Comprehend(o, rest) ==
  IF o.err # "none"
  THEN {[cache |-> o.cache, err |-> o.err, ret |-> NoValue]}
  ELSE {[cache |-> r.cache, err |-> r.err,
         ret |-> IF r.err = "none" THEN <<o.ret>> \o r.ret ELSE NoValue] :
          r \in rest[o.cache]}

RECURSIVE ReduceRow(_, _, _)
(* [self.palette.find_nearest(pixel) for pixel in row]: the outcomes       *)
(* [cache, err, ret], ret the pixels found when nothing raised.            *)
ReduceRow(members, memo, row) ==
  IF row = <<>> THEN {[cache |-> memo, err |-> "none", ret |-> <<>>]}
  ELSE UNION {Comprehend(o, [c \in {o.cache} |-> ReduceRow(members, c, Tail(row))]) :
                o \in find_nearest(members, memo, Head(row))}

RECURSIVE ReduceRows(_, _, _)
(* [[... for pixel in row] for row in image_data] *)
ReduceRows(members, memo, rows) ==
  IF rows = <<>> THEN {[cache |-> memo, err |-> "none", ret |-> <<>>]}
  ELSE UNION {Comprehend(o, [c \in {o.cache} |-> ReduceRows(members, c, Tail(rows))]) :
                o \in ReduceRow(members, memo, Head(rows))}

(* np.array(reduced_image_data, dtype=np.uint8): every channel modulo 256. *)
AsUint8(grid) ==
  [i \in DOMAIN grid |-> [j \in DOMAIN grid[i] |->
     [k \in DOMAIN grid[i][j] |-> grid[i][j][k] % 256]]]

(* reduce_image catching what find_nearest raises and returning the image  *)
(* as it was.                                                              *)
reduce_image_swallowing(members, memo, image) ==
  {[cache |-> o.cache, err |-> "none",
    ret |-> IF o.err = "none" THEN AsUint8(o.ret) ELSE image] :
     o \in ReduceRows(members, memo, image)}

(* Coloromo.reduce_image(image): the outcomes [cache, err, ret]. *)
reduce_image(members, memo, image) ==
  {[cache |-> o.cache, err |-> o.err,
    ret |-> IF o.err = "none" THEN AsUint8(o.ret) ELSE NoValue] :
     o \in ReduceRows(members, memo, image)}

(* The images: rows x columns of RGB colours, at most MaxPixels pixels. *)
Images ==
  UNION {[1..s[1] -> [1..s[2] -> RGBColors]] :
           s \in {t \in (1..MaxPixels) \X (1..MaxPixels) : t[1] * t[2] <= MaxPixels}}

(* One call of find_nearest. *)
FindNearest(rgb) ==
  \E o \in find_nearest(colors, cache, rgb) :
    /\ cache' = o.cache
    /\ last' = Call("find_nearest", rgb, o.err, o.ret)
    /\ UNCHANGED <<colors, passed>>

(* One call of reduce_image. *)
ReduceImage(image) ==
  \E o \in reduce_image(colors, cache, image) :
    /\ cache' = o.cache
    /\ last' = Call("reduce_image", image, o.err, o.ret)
    /\ UNCHANGED <<colors, passed>>

(***************************************************************************)
(* Calls of the CIE functions                                              *)
(***************************************************************************)

(* _ciede2000 over the pairs of CIELAB inputs, computed once. *)
Ciede2000Table ==
  [p \in LabInputs \X LabInputs |-> ciede2000_unpacked(LabFloat(p[1]), LabFloat(p[2]))] @@ <<>>

(* The call of op on arg that ended with the outcome out (with its err     *)
(* field).                                                                 *)
Returned(op, arg, out) == Call(op, arg, out.err, out)

CallCiede2000(c1, c2) ==
  /\ last' = Returned("ciede2000", <<c1, c2>>, Ciede2000Table[<<c1, c2>>])
  /\ UNCHANGED <<colors, cache, passed>>

CallRadiansToDegrees(angle) ==
  /\ last' = Returned("radians_to_degrees", angle, radians_to_degrees(angle))
  /\ UNCHANGED <<colors, cache, passed>>

CallSrgbToCiexyz(rgb) ==
  /\ last' = Call("srgb_to_ciexyz", rgb, "none", srgb_to_ciexyz(rgb[1], rgb[2], rgb[3]))
  /\ UNCHANGED <<colors, cache, passed>>

(***************************************************************************)
(* Specifications                                                          *)
(***************************************************************************)

(* The palette is filled as documented, with iterables of RGB triples. *)
Next ==
  \/ \E arg \in SeqsOf(RGBColors, 0, MaxAdd) : AddColors(arg)
  \/ \E rgb \in RGBColors : FindNearest(rgb)
  \/ \E image \in Images : ReduceImage(image)

Spec == Init /\ [][Next]_vars

(* The palette is filled with groups of RGB triples, the argument shape    *)
(* for which the unpacking update inserts whole triples.                   *)
NextGrouped ==
  \/ \E g \in SeqsOf(RGBColors, 1, MaxAdd) : AddGroups(<<g>>)
  \/ \E rgb \in RGBColors : FindNearest(rgb)
  \/ \E image \in Images : ReduceImage(image)

SpecGrouped == Init /\ [][NextGrouped]_vars

(* The static methods of CIE, called on their own. *)
NextCIE ==
  \/ \E c1 \in LabInputs, c2 \in LabInputs : CallCiede2000(c1, c2)
  \/ \E angle \in AngleInputs : CallRadiansToDegrees(angle)
  \/ \E rgb \in RGBColors \cup {<<255, 0, 0>>, <<0, 255, 0>>, <<0, 0, 255>>} :
       CallSrgbToCiexyz(rgb)

SpecCIE == Init /\ [][NextCIE]_vars

(***************************************************************************)
(* Properties                                                              *)
(***************************************************************************)

(* C1: after any sequence of Palette.add calls, each given an iterable of  *)
(* RGB triples, the member set is exactly the set of triples passed so     *)
(* far: whole triples, not channel values.                                 *)
C1_MembersArePassedTriples == colors = passed

(* The results a fresh nearest-neighbour search of rgb over the members    *)
(* can return.                                                             *)
FreshResults(members, rgb) ==
  {o.ret : o \in {s \in Search(members, rgb) : s.err = "none"}}

(* C2: every entry key -> value of the cache equals what a fresh           *)
(* nearest-neighbour search of key over the current palette gives (add     *)
(* clears the cache).                                                      *)
C2_CacheIsFresh == \A key \in DOMAIN cache : cache[key] \in FreshResults(colors, key)

C4_ReduceMapsNearest ==
  (last.op = "reduce_image" /\ colors # {})
    => /\ last.err = "none"
       /\ DOMAIN last.ret = DOMAIN last.arg
       /\ \A i \in DOMAIN last.arg :
            /\ DOMAIN last.ret[i] = DOMAIN last.arg[i]
            /\ \A j \in DOMAIN last.arg[i] :
                 /\ last.ret[i][j] \in colors
                 /\ last.ret[i][j] \in
                      {o.ret : o \in find_nearest(colors, cache, last.arg[i][j])}

(* C5: for a non-empty palette nearest returns a member m with             *)
(* delta_e(input, m) <= delta_e(input, p) for every member p.              *)
C5_NearestIsMinimiser ==
  (last.op = "find_nearest" /\ colors # {})
    => /\ last.err = "none"
       /\ last.ret \in colors
       /\ \A p \in colors :
            /\ IsColor(p)
            /\ delta_e(last.arg, p).err = "none"
            /\ FLe[delta_e(last.arg, last.ret).Delta_E, delta_e(last.arg, p).Delta_E]

(* C6: delta_e(c, c) returns 0 for every Lab colour c, also when           *)
(* a = b = 0.                                                              *)
C6_DistanceToSelfIsZero ==
  (last.op = "ciede2000" /\ last.arg[1] = last.arg[2])
    => (last.err = "none" /\ last.ret.Delta_E = FZero)

(* C7: for a pair of Lab colours of which one or both have zero chroma     *)
(* (a = 0 and b = 0) delta_e returns a value: nothing divides by zero, in  *)
(* G_plus, in R_C or in the hue angles.                                    *)
C7_ZeroChromaReturns ==
  (last.op = "ciede2000"
     /\ (last.arg[1][2] = <<0, 0>> \/ last.arg[2][2] = <<0, 0>>))
    => last.err = "none"

(* C8: radians_to_degrees raises for every angle outside [-pi, pi], and    *)
(* returns degrees within [0, 360) for every angle inside; no call of      *)
(* delta_e ends with its error.                                            *)
C8_DegreesInHalfOpenRange ==
  /\ last.op = "radians_to_degrees"
       => IF FLt[FPi, last.arg] \/ FLt[last.arg, FNeg[FPi]]
          THEN last.err = "ValueError"
          ELSE /\ last.err = "none"
               /\ last.ret.val.m >= 0
               /\ FLt[last.ret.val, FromInt(360)]
  /\ last.op = "ciede2000" => last.err # "ValueError"

(* row . v, the products added left to right from 0. *)
Dot(row, v) ==
  FAdd[FAdd[FAdd[FZero, FMul[row[1], v[1]]], FMul[row[2], v[2]]], FMul[row[3], v[3]]]

(* C9: the sRGB-to-CIEXYZ step returns the product of the matrix with the  *)
(* vector of the gamma-expanded channels: each of X, Y, Z is the sum of    *)
(* M[i][1] * r', M[i][2] * g' and M[i][3] * b'.                            *)
C9_MatrixVectorProduct ==
  last.op = "srgb_to_ciexyz"
    => \A i \in 1..3 :
         last.ret[i] = Dot(SRGB_TO_CIEXYZ_MATRIX[i],
                           gamma_expanded(last.arg[1], last.arg[2], last.arg[3]))

(* The difference h2 - h1 of the hue angles a call of delta_e ended with.  *)
LastHueDiff == FSub[last.ret.h_prime_2, last.ret.h_prime_1]

(* C10: the hue difference of delta_e is 0 when either C' is zero;         *)
(* otherwise h2 - h1 when |h2 - h1| <= 180, h2 - h1 - 360 when             *)
(* h2 - h1 > 180 and h2 - h1 + 360 when h2 - h1 < -180; it always lies in  *)
(* [-180, 180].                                                            *)
C10_HueDifferenceWraps ==
  (last.op = "ciede2000" /\ last.err = "none")
    => /\ IF last.ret.C_prime_1 = FZero \/ last.ret.C_prime_2 = FZero
          THEN last.ret.Delta_h_prime = FZero
          ELSE IF FLt[FromInt(180), LastHueDiff]
          THEN last.ret.Delta_h_prime = FSub[LastHueDiff, FromInt(360)]
          ELSE IF FLt[LastHueDiff, FromInt(-180)]
          THEN last.ret.Delta_h_prime = FAdd[LastHueDiff, FromInt(360)]
          ELSE last.ret.Delta_h_prime = LastHueDiff
       /\ FLe[FromInt(-180), last.ret.Delta_h_prime]
       /\ FLe[last.ret.Delta_h_prime, FromInt(180)]

(* delta_e returned for two colours of nonzero C' whose hue angles differ  *)
(* by more than 180 degrees, and brought the difference back by 360.       *)
C10_WrappedDown ==
  /\ last.op = "ciede2000"
  /\ last.err = "none"
  /\ last.ret.C_prime_1 # FZero /\ last.ret.C_prime_2 # FZero
  /\ FLt[FromInt(180), LastHueDiff]
  /\ last.ret.Delta_h_prime = FSub[LastHueDiff, FromInt(360)]

====
